---- MODULE Spec2Model ----
(***************************************************************************)
(* Model of the HTTP load generator: main (main.go), the dispatcher        *)
(* bench.Run, the workers bench.LaunchTask, the reporter bench.PrintResult *)
(* and the cancellation watcher goroutine started by main.                 *)
(*                                                                         *)
(* Every shared-memory access of the Go code is one step.  The atomic      *)
(* counter additions (atomic.AddUint32) are single steps; the plain reads  *)
(* and writes of DelayMin and DelayMax (bench.go 135-140) are separate     *)
(* steps, so that every interleaving of the unsynchronised compare-then-   *)
(* set is a behaviour of the model.  Purely local computation is merged    *)
(* into the next shared step of the same goroutine.                        *)
(*                                                                         *)
(* The counters are uint32 in the code; the bounds below keep every count  *)
(* far below 2^32, so no wrap-around happens in the model.                 *)
(***************************************************************************)
EXTENDS Integers, Sequences, FiniteSets, TLC

\* ------------------------------------------------------------------ bounds
MaxRequests == 3
MaxConcurrency == 2
MaxDelay == 2

\* net/http's StatusOK, the status bench.go 130 tests for
StatusOK == 200

Workers == 1..MaxConcurrency
\* time.Since(start) after a network call: a positive duration
Delays == 1..MaxDelay

\* flag values main may be started with (-m, -h)
Methods == {"POST", "HEAD"}
Hosts == {"http://h", ""}

\* ------------------------------------------------------- transport (client.Do)
\* error values: nil, the *url.Error every failing client.Do returns (its
\* Timeout() reporting whether the client's Timeout expired), and the package
\* variable http.ErrHandlerTimeout the code compares against.
NilErr == [type |-> "nil", timeout |-> FALSE]
UrlError == [type |-> "*url.Error", timeout |-> FALSE]
UrlTimeoutError == [type |-> "*url.Error", timeout |-> TRUE]
ErrHandlerTimeout == [type |-> "http.ErrHandlerTimeout", timeout |-> FALSE]

RespOK == [err |-> NilErr, status |-> StatusOK]
Resp500 == [err |-> NilErr, status |-> 500]
RespError == [err |-> UrlError, status |-> 0]
RespTimeout == [err |-> UrlTimeoutError, status |-> 0]

\* the transports a run is exercised against: "any" answers every call with
\* any outcome; the others are deterministic mocks ("alt" alternates 200/500
\* by the number of calls made so far).
Transports == {"any", "ok", "timeout", "alt"}

ClientDo(tr, k) ==
    CASE tr = "any" -> {RespOK, Resp500, RespError, RespTimeout}
      [] tr = "ok" -> {RespOK}
      [] tr = "timeout" -> {RespTimeout}
      [] tr = "alt" -> IF k % 2 = 0 THEN {RespOK} ELSE {Resp500}

\* ------------------------------------------------------------------ state
VARIABLES
    requests, concurrency, method, host,   \* bench fields set by ParseArgs
    stats,                                 \* bench.stats
    mpc,                                   \* main goroutine: position
    numRequests, launched, wg,             \* Run: locals and the WaitGroup
    wpc, iter, werr, wdelay,      \* LaunchTask per worker: position and locals
    spc,                                   \* watcher goroutine: position
    ctxDone, interrupted, intrDuringRun,   \* signal context; signal history
    exited, exitStatus,                    \* process termination
    printed,                               \* stdout: who printed a report, in order
    transport, newRequestFails,            \* environment: transport, NewRequest outcome
    flagMethod, flagHost,                  \* the -m and -h flags as given
    taskMethod, wreq,                      \* task.method; each worker's req.Method
    observed, trackDelays                  \* history: the delays measured so far,
                                           \* recorded when trackDelays is set

vars == <<requests, concurrency, method, host, stats, mpc, numRequests, launched,
          wg, wpc, iter, werr, wdelay, spc, ctxDone, interrupted,
          intrDuringRun, exited, exitStatus, printed, transport, newRequestFails,
          flagMethod, flagHost, taskMethod, wreq, observed, trackDelays>>

benchVars == <<requests, concurrency, method, host>>
runVars == <<numRequests, launched, wg>>
workerLocals == <<iter, werr, wdelay>>
sigVars == <<ctxDone, interrupted, intrDuringRun>>
exitVars == <<exited, exitStatus>>
envVars == <<transport, newRequestFails, trackDelays>>
flagVars == <<flagMethod, flagHost>>
taskVars == <<taskMethod, wreq>>

ZeroStats ==
    [RequestsTotal |-> 0, RequestsSuccess |-> 0, RequestsFail |-> 0,
     RequestsTimeout |-> 0, DelayMin |-> 0, DelayAvg |-> 0, DelayMax |-> 0]

\* NewBench() returns the zero bench; nothing has run yet.
InitBench ==
    /\ requests = 0 /\ concurrency = 0 /\ method = "" /\ host = ""
    /\ stats = ZeroStats
    /\ mpc = "parse"
    /\ numRequests = 0 /\ launched = 0 /\ wg = 0
    /\ wpc = [w \in Workers |-> "idle"]
    /\ iter = [w \in Workers |-> 0]
    /\ werr = [w \in Workers |-> NilErr]
    /\ wdelay = [w \in Workers |-> 0]
    /\ spc = "idle"
    /\ ctxDone = FALSE /\ interrupted = FALSE /\ intrDuringRun = FALSE
    /\ exited = FALSE /\ exitStatus = 0
    /\ printed = <<>>
    /\ transport \in Transports
    /\ newRequestFails \in BOOLEAN
    /\ flagMethod = "" /\ flagHost = ""
    /\ taskMethod = ""
    /\ wreq = [w \in Workers |-> ""]
    /\ observed = {}

Init == InitBench /\ trackDelays = FALSE

\* the same program, with the measured delays recorded in observed
InitTracking == InitBench /\ trackDelays = TRUE

Running == ~exited

\* --------------------------------------------------------------- ParseArgs
\* mutant of MethodAllowed: HEAD let through
MethodAllowed_WithHead(m) == m \in {"GET", "POST", "PUT", "PATCH", "DELETE", "HEAD"}

\* bench.go 69-74: the methods the switch accepts
MethodAllowed(m) == m \in {"GET", "POST", "PUT", "PATCH", "DELETE"}

\* url.ParseRequestURI rejects the empty string
HostValid(h) == h # ""

\* main.go 14-23: ParseArgs; on error log.Fatalln (exit status 1); otherwise the
\* watcher goroutine is started and main goes on to Run.
ParseArgs ==
    /\ Running /\ mpc = "parse"
    /\ \E n \in 0..MaxRequests, c \in 0..MaxConcurrency, m \in Methods, h \in Hosts :
        /\ flagMethod' = m /\ flagHost' = h
        /\ requests' = n
        /\ concurrency' = c
        /\ IF ~MethodAllowed(m)
              THEN /\ UNCHANGED <<method, host, spc, mpc>>
                   /\ exited' = TRUE /\ exitStatus' = 1
              ELSE /\ method' = m
                   /\ IF ~HostValid(h)
                         THEN /\ UNCHANGED <<host, spc, mpc>>
                              /\ exited' = TRUE /\ exitStatus' = 1
                         ELSE /\ host' = h
                              /\ spc' = "blocked"
                              /\ mpc' = "run"
                              /\ UNCHANGED exitVars
    /\ UNCHANGED <<stats, runVars, wpc, workerLocals, sigVars, printed, envVars,
                   taskVars, observed>>

\* ---------------------------------------------------------------------- Run
\* mutants of PerWorker: the share rounded up; the division forgotten
PerWorker_RoundedUp(n, c) == (n + c - 1) \div c

PerWorker_Undivided(n, c) == n

\* bench.go 92: integer division of the request count by the concurrency
PerWorker(n, c) == n \div c

\* bench.go 94-96: the task literal sets url only; its method stays the zero
\* string whatever the configured method is
TaskMethod(configured) == ""

\* bench.go 91-101: Run's prologue.  A zero concurrency makes the division
\* panic: the process dies with exit status 2.
RunStart ==
    /\ Running /\ mpc = "run"
    /\ IF concurrency = 0
          THEN /\ exited' = TRUE /\ exitStatus' = 2
               /\ UNCHANGED <<numRequests, mpc, taskMethod>>
          ELSE /\ numRequests' = PerWorker(requests, concurrency)
               /\ taskMethod' = TaskMethod(method)
               /\ mpc' = "spawn"
               /\ UNCHANGED exitVars
    /\ UNCHANGED <<benchVars, stats, launched, wg, wpc, workerLocals, spc, sigVars,
                   printed, envVars, flagVars, wreq, observed>>

\* bench.go 103-109: one turn of the launch loop: wg.Add(1) and go func().
Spawn ==
    /\ Running /\ mpc = "spawn" /\ launched < concurrency
    /\ wg' = wg + 1
    /\ launched' = launched + 1
    /\ wpc' = [wpc EXCEPT ![launched + 1] = "new"]
    /\ UNCHANGED <<benchVars, stats, mpc, numRequests, workerLocals, spc, sigVars,
                   exitVars, printed, envVars, flagVars, taskVars, observed>>

\* bench.go 103: the launch loop's exit
SpawnDone ==
    /\ Running /\ mpc = "spawn" /\ launched >= concurrency
    /\ mpc' = "wait"
    /\ UNCHANGED <<benchVars, stats, runVars, wpc, workerLocals, spc, sigVars,
                   exitVars, printed, envVars, flagVars, taskVars, observed>>

\* mutant of WaitReady: Run does not wait for the workers
WaitReady_NoBarrier(counter) == TRUE

\* bench.go 110: wg.Wait() returns when the counter is zero
WaitReady(counter) == counter = 0

Wait ==
    /\ Running /\ mpc = "wait" /\ WaitReady(wg)
    /\ mpc' = "print"
    /\ UNCHANGED <<benchVars, stats, runVars, wpc, workerLocals, spc, sigVars,
                   exitVars, printed, envVars, flagVars, taskVars, observed>>

\* --------------------------------------------------------------- LaunchTask
\* bench.go 113-118 and 119 (first loop test) and 107: the request is built;
\* when http.NewRequest fails the worker returns at once.  A worker that
\* returns calls wg.Done() (bench.go 107).
\* mutant of Return: a return path that misses wg.Done()
Return_NoDone(w) ==
    /\ wpc' = [wpc EXCEPT ![w] = "done"]
    /\ UNCHANGED wg

Return(w) ==
    /\ wpc' = [wpc EXCEPT ![w] = "done"]
    /\ wg' = wg - 1

\* bench.go 114: http.NewRequest takes the empty method for GET
RequestMethod(m) == IF m = "" THEN "GET" ELSE m

\* mutant of AfterNewRequest: the error of http.NewRequest is ignored
AfterNewRequest_ErrorIgnored(fails) == "loop"

\* bench.go 116-118: on an error LaunchTask returns, otherwise it enters the loop
AfterNewRequest(fails) == IF fails THEN "done" ELSE "loop"

NewRequest(w) ==
    /\ Running /\ wpc[w] = "new"
    /\ IF AfterNewRequest(newRequestFails) = "done"
          THEN /\ Return(w)
               /\ UNCHANGED wreq
          ELSE /\ wpc' = [wpc EXCEPT ![w] = "loop"]
               /\ wreq' = [wreq EXCEPT ![w] = RequestMethod(taskMethod)]
               /\ UNCHANGED wg
    /\ UNCHANGED <<benchVars, stats, mpc, numRequests, launched, workerLocals, spc,
                   sigVars, exitVars, printed, envVars, flagVars, taskMethod, observed>>

\* bench.go 119-121: i < numRequest, start := time.Now(),
\* atomic.AddUint32(&b.stats.RequestsTotal, 1)
StartIteration(w) ==
    /\ Running /\ wpc[w] = "loop" /\ iter[w] < numRequests
    /\ stats' = [stats EXCEPT !.RequestsTotal = @ + 1]
    /\ wpc' = [wpc EXCEPT ![w] = "do"]
    /\ UNCHANGED <<benchVars, mpc, runVars, workerLocals, spc, sigVars, exitVars,
                   printed, envVars, flagVars, taskVars, observed>>

\* bench.go 119, 143, 107: the loop ends, LaunchTask returns, wg.Done()
LoopExit(w) ==
    /\ Running /\ wpc[w] = "loop" /\ iter[w] >= numRequests
    /\ Return(w)
    /\ UNCHANGED <<benchVars, stats, mpc, numRequests, launched, workerLocals, spc,
                   sigVars, exitVars, printed, envVars, flagVars, taskVars, observed>>

\* the number of calls the transport has answered so far: every iteration adds
\* one to RequestsTotal and then waits for its call's answer
DoCalls == stats.RequestsTotal - Cardinality({w \in Workers : wpc[w] = "do"})

\* mutants of Classification: a timed-out call counted as a timeout in place
\* of a failure; the success test comparing with the wrong status
Classification_TimeoutBucket(err, status) ==
    IF err # NilErr
       THEN IF err.timeout
               THEN [fail |-> 0, timeout |-> 1, success |-> 0]
               ELSE [fail |-> 1, timeout |-> 0, success |-> 0]
       ELSE IF status = StatusOK
               THEN [fail |-> 0, timeout |-> 0, success |-> 1]
               ELSE [fail |-> 0, timeout |-> 0, success |-> 0]

Classification_WrongStatus(err, status) ==
    IF err # NilErr
       THEN [fail |-> 1, timeout |-> IF err = ErrHandlerTimeout THEN 1 ELSE 0, success |-> 0]
       ELSE IF status = StatusOK + 1
               THEN [fail |-> 0, timeout |-> 0, success |-> 1]
               ELSE [fail |-> 0, timeout |-> 0, success |-> 0]

\* bench.go 124-132: what one answer adds to the counters.  An error adds a
\* failure, and a timeout too when it is the value http.ErrHandlerTimeout; no
\* error and status 200 adds a success; any other answer adds nothing.
Classification(err, status) ==
    IF err # NilErr
       THEN [fail |-> 1, timeout |-> IF err = ErrHandlerTimeout THEN 1 ELSE 0, success |-> 0]
       ELSE IF status = StatusOK
               THEN [fail |-> 0, timeout |-> 0, success |-> 1]
               ELSE [fail |-> 0, timeout |-> 0, success |-> 0]

\* bench.go 122-126, 130-132: resp, err := b.client.Do(req) returns and the
\* first counter addition of the classification is made.  (resp is not read
\* after this step, err only in the error branch: the model keeps the locals
\* only while they are live.)
Do(w) ==
    /\ Running /\ wpc[w] = "do"
    /\ \E r \in ClientDo(transport, DoCalls) :
        /\ stats' = [stats EXCEPT
                        !.RequestsFail = @ + Classification(r.err, r.status).fail,
                        !.RequestsSuccess = @ + Classification(r.err, r.status).success]
        /\ werr' = [werr EXCEPT ![w] = r.err]
        /\ wpc' = [wpc EXCEPT ![w] = IF r.err # NilErr THEN "timeout" ELSE "min"]
    /\ UNCHANGED <<benchVars, mpc, runVars, iter, wdelay, spc, sigVars, exitVars,
                   printed, envVars, flagVars, taskVars, observed>>

\* bench.go 127-129: inside the error branch, after the failure was counted
ClassifyTimeout(w) ==
    /\ Running /\ wpc[w] = "timeout"
    /\ stats' = [stats EXCEPT !.RequestsTimeout = @ + Classification(werr[w], 0).timeout]
    /\ wpc' = [wpc EXCEPT ![w] = "min"]
    /\ werr' = [werr EXCEPT ![w] = NilErr]
    /\ UNCHANGED <<benchVars, mpc, runVars, iter, wdelay, spc, sigVars, exitVars,
                   printed, envVars, flagVars, taskVars, observed>>

\* bench.go 135: the condition of the minimum's update
MinCondition(delay, min) == min = 0 \/ delay < min

\* bench.go 133, 135: delay := time.Since(start), and the condition is
\* evaluated on the DelayMin read.  (The condition reads DelayMin twice; as no
\* delay is zero, DelayMin never goes back to zero, and two reads decide as
\* one read does: the first when it reads zero, the second otherwise.)
MinTest(w) ==
    /\ Running /\ wpc[w] = "min"
    /\ \E d \in Delays :
        /\ wdelay' = [wdelay EXCEPT ![w] = d]
        /\ observed' = IF trackDelays THEN observed \cup {d} ELSE observed
        /\ wpc' = [wpc EXCEPT ![w] = IF MinCondition(d, stats.DelayMin)
                                         THEN "minset" ELSE "max"]
    /\ UNCHANGED <<benchVars, stats, mpc, runVars, iter, werr, spc, sigVars, exitVars,
                   printed, envVars, flagVars, taskVars>>

\* bench.go 136: b.stats.DelayMin = delay
MinSet(w) ==
    /\ Running /\ wpc[w] = "minset"
    /\ stats' = [stats EXCEPT !.DelayMin = wdelay[w]]
    /\ wpc' = [wpc EXCEPT ![w] = "max"]
    /\ UNCHANGED <<benchVars, mpc, runVars, workerLocals, spc, sigVars, exitVars,
                   printed, envVars, flagVars, taskVars, observed>>

\* bench.go 119 (i++), 142: the iteration ends
\* (resp, err and delay are locals of the loop body)
EndIteration(w) ==
    /\ iter' = [iter EXCEPT ![w] = @ + 1]
    /\ wdelay' = [wdelay EXCEPT ![w] = 0]
    /\ UNCHANGED werr

\* bench.go 138: the condition of the maximum's update
MaxCondition(delay, max) == delay > max

\* bench.go 138: read DelayMax for "delay > b.stats.DelayMax"
MaxTest(w) ==
    /\ Running /\ wpc[w] = "max"
    /\ IF MaxCondition(wdelay[w], stats.DelayMax)
          THEN /\ wpc' = [wpc EXCEPT ![w] = "maxset"]
               /\ UNCHANGED workerLocals
          ELSE /\ wpc' = [wpc EXCEPT ![w] = "loop"]
               /\ EndIteration(w)
    /\ UNCHANGED <<benchVars, stats, mpc, runVars, spc, sigVars, exitVars, printed,
                   envVars, flagVars, taskVars, observed>>

\* bench.go 139: b.stats.DelayMax = delay
MaxSet(w) ==
    /\ Running /\ wpc[w] = "maxset"
    /\ stats' = [stats EXCEPT !.DelayMax = wdelay[w]]
    /\ wpc' = [wpc EXCEPT ![w] = "loop"]
    /\ EndIteration(w)
    /\ UNCHANGED <<benchVars, mpc, runVars, spc, sigVars, exitVars, printed, envVars,
                   flagVars, taskVars, observed>>

\* -------------------------------------------------------------- PrintResult
\* Go's integer division truncates toward zero
Quot(a, b) == IF a >= 0 THEN a \div b ELSE -((-a) \div b)

\* bench.go 148
DelayAvgOf(min, max) == Quot(max - min, 2)

\* bench.go 145-174: DelayAvg is stored, then the statistics are printed.
\* (Runtime and the requests per second depend on the wall clock only.)
PrintResult(by) ==
    /\ stats' = [stats EXCEPT !.DelayAvg = DelayAvgOf(stats.DelayMin, stats.DelayMax)]
    /\ printed' = Append(printed, by)

\* main.go 26
MainPrint ==
    /\ Running /\ mpc = "print"
    /\ PrintResult("main")
    /\ mpc' = "cancel"
    /\ UNCHANGED <<benchVars, runVars, wpc, workerLocals, spc, sigVars, exitVars,
                   envVars, flagVars, taskVars, observed>>

\* main.go 12: the deferred cancel() runs when main returns; it closes ctx.Done()
DeferredCancel ==
    /\ Running /\ mpc = "cancel"
    /\ ctxDone' = TRUE
    /\ mpc' = "return"
    /\ UNCHANGED <<benchVars, stats, runVars, wpc, workerLocals, spc, interrupted,
                   intrDuringRun, exitVars, printed, envVars, flagVars, taskVars, observed>>

\* main.go 27: main has returned; the runtime ends the process with status 0
MainReturn ==
    /\ Running /\ mpc = "return"
    /\ exited' = TRUE /\ exitStatus' = 0
    /\ mpc' = "returned"
    /\ UNCHANGED <<benchVars, stats, runVars, wpc, workerLocals, spc, sigVars,
                   printed, envVars, flagVars, taskVars, observed>>

\* ------------------------------------------------------------------ watcher
\* main.go 20-21: <-ctx.Done() returns once the context is cancelled, and the
\* watcher prints
WatcherPrint ==
    /\ Running /\ spc = "blocked" /\ ctxDone
    /\ PrintResult("watcher")
    /\ spc' = "exit"
    /\ UNCHANGED <<benchVars, mpc, runVars, wpc, workerLocals, sigVars, exitVars,
                   envVars, flagVars, taskVars, observed>>

\* main.go 22: os.Exit(1)
WatcherExit ==
    /\ Running /\ spc = "exit"
    /\ exited' = TRUE /\ exitStatus' = 1
    /\ spc' = "exited"
    /\ UNCHANGED <<benchVars, stats, mpc, runVars, wpc, workerLocals, sigVars,
                   printed, envVars, flagVars, taskVars, observed>>

\* bench.go 90-111: Run has been called and has not returned
RunInProgress == mpc \in {"run", "spawn", "wait"}

\* main.go 11: the operator's interrupt cancels the signal context.  It arrives
\* at any moment after the watcher was started, once.  (An interrupt during
\* ParseArgs only sets the context, which nobody reads before the watcher
\* starts: it acts as one arriving when Run is called.)
Interrupt ==
    /\ Running /\ ~interrupted /\ mpc # "parse"
    /\ interrupted' = TRUE
    /\ ctxDone' = TRUE
    /\ intrDuringRun' = RunInProgress
    /\ UNCHANGED <<benchVars, stats, mpc, runVars, wpc, workerLocals, spc, exitVars,
                   printed, envVars, flagVars, taskVars, observed>>

\* ------------------------------------------------------------ specification
Next ==
    \/ ParseArgs
    \/ RunStart
    \/ Spawn
    \/ SpawnDone
    \/ Wait
    \/ \E w \in Workers : NewRequest(w)
    \/ \E w \in Workers : StartIteration(w)
    \/ \E w \in Workers : LoopExit(w)
    \/ \E w \in Workers : Do(w)
    \/ \E w \in Workers : ClassifyTimeout(w)
    \/ \E w \in Workers : MinTest(w)
    \/ \E w \in Workers : MinSet(w)
    \/ \E w \in Workers : MaxTest(w)
    \/ \E w \in Workers : MaxSet(w)
    \/ MainPrint
    \/ DeferredCancel
    \/ MainReturn
    \/ WatcherPrint
    \/ WatcherExit
    \/ Interrupt

Spec == Init /\ [][Next]_vars

SpecTracking == InitTracking /\ [][Next]_vars

\* The executions in which no interrupt is delivered, under the scheduling the
\* Go runtime gives: every goroutine that can take a step eventually takes
\* one, and every call of the transport returns.
MainStep ==
    \/ ParseArgs
    \/ RunStart
    \/ Spawn
    \/ SpawnDone
    \/ Wait
    \/ MainPrint
    \/ DeferredCancel
    \/ MainReturn

WorkerStep(w) ==
    \/ NewRequest(w)
    \/ StartIteration(w)
    \/ LoopExit(w)
    \/ Do(w)
    \/ ClassifyTimeout(w)
    \/ MinTest(w)
    \/ MinSet(w)
    \/ MaxTest(w)
    \/ MaxSet(w)

WatcherStep ==
    \/ WatcherPrint
    \/ WatcherExit

NextUninterrupted ==
    \/ MainStep
    \/ \E w \in Workers : WorkerStep(w)
    \/ WatcherStep

Fairness ==
    /\ WF_vars(MainStep)
    /\ \A w \in Workers : WF_vars(WorkerStep(w))
    /\ WF_vars(WatcherStep)

LiveSpec == Init /\ [][NextUninterrupted]_vars /\ Fairness

\* ------------------------------------------------------------------ claims
\* bench.go 110-111: wg.Wait() has returned, and so has Run
RunReturned == mpc \in {"print", "cancel", "return", "returned"}

\* some worker has finished an iteration of its loop
AnyCompleted == \E w \in Workers : iter[w] >= 1

\* no worker is between the start and the end of its update of the extrema
NoUpdateInProgress == \A w \in Workers : wpc[w] \notin {"min", "minset", "max", "maxset"}

\* C1: for every completed run, whatever each attempt's outcome,
\* RequestsTotal = RequestsSuccess + RequestsFail.
C1_TotalIsSuccessPlusFail ==
    RunReturned => stats.RequestsTotal = stats.RequestsSuccess + stats.RequestsFail

\* C2: when Run has returned and the request was built, exactly
\* concurrency * floor(requests / concurrency) attempts are recorded, under
\* every interleaving of the workers.
C2_AttemptsRecorded ==
    (RunReturned /\ ~newRequestFails)
        => stats.RequestsTotal = concurrency * (requests \div concurrency)

\* C2's case: two workers shared three requests, one each, the third dropped
C2_Witness ==
    /\ RunReturned /\ ~newRequestFails
    /\ concurrency = 2 /\ requests = 3
    /\ stats.RequestsTotal = 2

\* C3: once a request has completed, DelayMin <= DelayMax, under every
\* interleaving of the workers' updates (looked at when no worker is part-way
\* through its update).
C3_MinLeMax ==
    (AnyCompleted /\ NoUpdateInProgress) => stats.DelayMin <= stats.DelayMax

\* C4: in every reachable state, mid-run states included,
\* RequestsTimeout <= RequestsFail.
C4_TimeoutLeFail == stats.RequestsTimeout <= stats.RequestsFail

\* C4's case: mid-run, a worker has classified a timed-out call
C4_Witness ==
    /\ ~RunReturned /\ transport = "timeout"
    /\ stats.RequestsFail >= 1
    /\ \E w \in Workers : wpc[w] = "min"

\* C5: Run does not return before every one of the concurrency workers it
\* launched has finished: no state has Run returned and a worker inside
\* LaunchTask.
C5_JoinBarrier ==
    RunReturned => /\ launched = concurrency
                   /\ \A w \in 1..concurrency : wpc[w] = "done"

\* C5's case: Run returned after two workers made their requests
C5_Witness ==
    /\ RunReturned /\ concurrency = 2
    /\ \A w \in 1..2 : iter[w] >= 1

\* C6: when every call ends in a timeout, a completed run has
\* RequestsFail = RequestsTotal, RequestsTimeout = RequestsTotal and
\* RequestsSuccess = 0.
C6_AllTimeout ==
    (RunReturned /\ transport = "timeout")
        => /\ stats.RequestsFail = stats.RequestsTotal
           /\ stats.RequestsTimeout = stats.RequestsTotal
           /\ stats.RequestsSuccess = 0

\* C7: when every call returns a success response, a completed run has
\* RequestsSuccess = RequestsTotal, RequestsFail = 0 and RequestsTimeout = 0.
C7_AllSuccess ==
    (RunReturned /\ transport = "ok")
        => /\ stats.RequestsSuccess = stats.RequestsTotal
           /\ stats.RequestsFail = 0
           /\ stats.RequestsTimeout = 0

\* C7's case: a completed run of two workers against the always-200 transport
C7_Witness ==
    /\ RunReturned /\ transport = "ok"
    /\ concurrency = 2 /\ stats.RequestsTotal >= 2

\* the transports whose k-th answer is fixed
Deterministic == {"ok", "timeout", "alt"}

Counts(total, success, fail, timeout) ==
    [total |-> total, success |-> success, fail |-> fail, timeout |-> timeout]

\* bench.go 119-132 with one worker: the counters after calls k .. last - 1
\* against a deterministic transport, starting from the counters acc
RECURSIVE SequentialLoop(_, _, _, _)
SequentialLoop(tr, k, last, acc) ==
    IF k >= last
       THEN acc
       ELSE LET r == CHOOSE x \in ClientDo(tr, k) : TRUE
                c == Classification(r.err, r.status)
            IN SequentialLoop(tr, k + 1, last,
                   Counts(acc.total + 1, acc.success + c.success,
                          acc.fail + c.fail, acc.timeout + c.timeout))

\* bench.go 90-143 with concurrency 1: the counters of the completed run of n
\* requests
SequentialRun(n, tr, buildFails) ==
    IF buildFails
       THEN Counts(0, 0, 0, 0)
       ELSE SequentialLoop(tr, 0, PerWorker(n, 1), Counts(0, 0, 0, 0))

RunCounts ==
    Counts(stats.RequestsTotal, stats.RequestsSuccess, stats.RequestsFail,
           stats.RequestsTimeout)

\* C8 as stated: for the same n and the same deterministic transport, the
\* completed run with concurrency N ends with the counts of the completed run
\* with concurrency 1.
C8_SameCountsAsSequential ==
    (RunReturned /\ transport \in Deterministic)
        => RunCounts = SequentialRun(requests, transport, newRequestFails)

\* C8 amended: ... provided the concurrency divides the request count.
C8_SameCountsWhenDivides ==
    (RunReturned /\ transport \in Deterministic /\ requests % concurrency = 0)
        => RunCounts = SequentialRun(requests, transport, newRequestFails)

\* C8's case: two workers completed two requests against the alternating
\* transport
C8_Witness ==
    /\ RunReturned /\ transport = "alt" /\ ~newRequestFails
    /\ concurrency = 2 /\ requests = 2
    /\ stats.RequestsTotal = 2

\* C9: no execution in which the interrupt arrived while the run was in
\* progress ends with exit status 0.
C9_InterruptNeverExitsZero ==
    (exited /\ intrDuringRun) => exitStatus # 0

\* C10: when all workers finish and no interrupt is ever delivered, the
\* process exits with status 0, never 1.
C10_CompletionExitsZero ==
    (exited /\ RunReturned /\ ~interrupted) => exitStatus = 0

\* ParseArgs has run on flags it must reject: a method outside the allow-list
\* or an invalid URL
FlagsRejected ==
    /\ mpc # "parse" \/ exited
    /\ \/ flagMethod \notin {"GET", "POST", "PUT", "PATCH", "DELETE"}
       \/ flagHost = ""

\* C11: when the method is not one of GET/POST/PUT/PATCH/DELETE or the URL is
\* invalid, ParseArgs returns an error, Run is never invoked, no request is
\* attempted and every Statistics counter stays zero.
C11_RejectedBeforeAnyRequest ==
    FlagsRejected => /\ mpc = "parse" /\ exited /\ exitStatus = 1
                     /\ launched = 0
                     /\ \A w \in Workers : wpc[w] = "idle"
                     /\ stats = ZeroStats

\* C11's case: -m HEAD with a valid URL was parsed
C11_Witness == FlagsRejected /\ flagMethod = "HEAD" /\ flagHost = "http://h"

\* C12: PrintResult is invoked at most once per process, by main or by the
\* watcher, never both.
C12_ReportedOnce == Len(printed) <= 1

\* the counters and extrema the workers write (bench.go 121-139)
StatsCounters ==
    <<stats.RequestsTotal, stats.RequestsSuccess, stats.RequestsFail,
      stats.RequestsTimeout, stats.DelayMin, stats.DelayMax>>

\* the run's terminal point is passed: Run has returned, or a report was begun
TerminalPointPassed == RunReturned \/ Len(printed) >= 1

\* C13 as stated: after the run's terminal point (Run returned, or the watcher
\* has started reporting) no counter or extremum is modified any more.
C13_ReadOnlyAfterTerminalPoint ==
    [][TerminalPointPassed => StatsCounters' = StatsCounters]_vars

\* C13 amended: after Run has returned no counter or extremum is modified any
\* more.
C13_ReadOnlyAfterRunReturned ==
    [][RunReturned => StatsCounters' = StatsCounters]_vars

\* C13's case: Run returned with requests counted and main has printed
C13_Witness ==
    /\ RunReturned /\ printed = <<"main">>
    /\ stats.RequestsTotal >= 1 /\ stats.DelayMax >= 1

\* the smallest and the largest of a non-empty set of delays
Smallest(S) == CHOOSE x \in S : \A y \in S : x <= y

Largest(S) == CHOOSE x \in S : \A y \in S : x >= y

\* C14: after a completed run with at least one attempt and positive
\* latencies, DelayMin is the smallest and DelayMax the largest latency any
\* worker observed, under every interleaving of the compare-then-set updates.
C14_ExtremaAreObserved ==
    (RunReturned /\ trackDelays /\ observed # {})
        => /\ stats.DelayMin = Smallest(observed)
           /\ stats.DelayMax = Largest(observed)

\* C15: every request a worker issues uses the HTTP method of the validated
\* configuration.
C15_RequestsUseConfiguredMethod ==
    \A w \in Workers : wreq[w] # "" => wreq[w] = method

\* C16: every configuration ParseArgs accepts has a positive concurrency, so
\* a concurrency of 0 never reaches Run.
C16_AcceptedConcurrencyPositive == mpc # "parse" => concurrency >= 1

\* C17: when request construction fails, a worker records no attempt (no
\* counter or extremum changes), surfaces no error and still signals
\* completion: it only goes from launched to done, the WaitGroup counts
\* exactly the workers that have not yet returned, so Run's barrier opens.
C17_BuildFailureSilent ==
    newRequestFails
        => /\ StatsCounters = <<0, 0, 0, 0, 0, 0>>
           /\ \A w \in Workers : wpc[w] \in {"idle", "new", "done"}
           /\ wg = Cardinality({w \in Workers : wpc[w] = "new"})
           /\ (exited /\ RunReturned /\ ~interrupted /\ spc = "blocked") => exitStatus = 0

\* C17's case: the request of both workers failed to build, Run returned and
\* the process ended normally with nothing recorded
C17_Witness ==
    /\ newRequestFails /\ RunReturned
    /\ concurrency = 2 /\ requests >= 2
    /\ \A w \in 1..2 : wpc[w] = "done"
    /\ stats.RequestsTotal = 0
    /\ exited /\ exitStatus = 0

\* main's PrintResult has run (after Run returned, so on the final extrema)
MainReported == mpc \in {"cancel", "return", "returned"}

\* C18: the average latency PrintResult computes is the midpoint
\* (DelayMin + DelayMax) / 2, and so lies between DelayMin and DelayMax
\* whenever DelayMin <= DelayMax.
C18_AvgIsMidpoint ==
    MainReported
        => /\ stats.DelayAvg = Quot(stats.DelayMin + stats.DelayMax, 2)
           /\ stats.DelayMin <= stats.DelayMax
                => (stats.DelayMin <= stats.DelayAvg /\ stats.DelayAvg <= stats.DelayMax)

\* the attempts Run plans: concurrency * floor(requests / concurrency)
PlannedAttempts ==
    IF concurrency = 0 THEN 0 ELSE concurrency * (requests \div concurrency)

\* C19: in every reachable state, mid-run states included,
\* RequestsSuccess + RequestsFail <= RequestsTotal
\*     <= concurrency * floor(requests / concurrency).
C19_CountsBounded ==
    /\ stats.RequestsSuccess + stats.RequestsFail <= stats.RequestsTotal
    /\ stats.RequestsTotal <= PlannedAttempts

\* C19's case: mid-run, both workers have counted their attempt and wait for
\* the answer, nothing classified yet
C19_Witness ==
    /\ ~RunReturned /\ concurrency = 2
    /\ \A w \in 1..2 : wpc[w] = "do"
    /\ stats.RequestsTotal = PlannedAttempts
    /\ stats.RequestsSuccess + stats.RequestsFail < stats.RequestsTotal

\* Run was called with a concurrency of at least 1
RunCalled == mpc = "run" /\ concurrency >= 1

\* Run has returned and every worker made all of its iterations (none, when
\* the request could not be built)
AllWorkersFinished ==
    /\ RunReturned
    /\ \A w \in 1..concurrency :
          /\ wpc[w] = "done"
          /\ iter[w] = IF newRequestFails THEN 0 ELSE numRequests

\* C20: for every configuration with concurrency >= 1, when every transport
\* call returns and the goroutines are scheduled fairly, every worker
\* eventually finishes its iterations and Run eventually returns, whatever
\* the transport's outcomes.
C20_RunEventuallyReturns == RunCalled ~> AllWorkersFinished

\* C20's case: both workers got errors from the transport and still made all
\* their iterations, and Run returned
C20_Witness ==
    /\ AllWorkersFinished /\ transport = "any" /\ ~newRequestFails
    /\ concurrency = 2 /\ numRequests >= 1
    /\ stats.RequestsFail = stats.RequestsTotal
    /\ stats.RequestsTotal = 2

====
